---- MODULE Spec2Model ----
(***************************************************************************)
(* A model of the safe-nd data types: keys, keypairs and signatures        *)
(* (public_key.rs, keys/keypair.rs), unpublished immutable data            *)
(* (immutable_data.rs), mutable data (mutable_data.rs) and the request     *)
(* dispatch (request/mod.rs).                                              *)
(*                                                                         *)
(* The cryptographic primitives (ed25519_dalek, threshold_crypto,          *)
(* tiny_keccak) are external.  They are modelled symbolically: a raw       *)
(* signature is the pair (signing secret, signed message), a primitive     *)
(* accepts a signature exactly when it was made by the secret of the given *)
(* public key over the given message, and the hash is collision free.      *)
(***************************************************************************)
EXTENDS Integers, Naturals, Sequences, FiniteSets, TLC

VARIABLES
    keypair,    \* the Keypair at hand
    pk,         \* the PublicKey handed to verify_detached
    sig,        \* the Signature handed to verify_detached
    msg,        \* the message handed to sign and verify_detached
    vcall,      \* the last verify_detached call: its arguments and result
    encoded,    \* the bytes of a serialised Keypair
    decoded,    \* the Keypair deserialised from them
    idata1,     \* an UnpubImmutableData
    idata2,     \* another UnpubImmutableData
    name1,      \* the last name() call on idata1: its receiver and result
    name2,      \* the last name() call on idata2: its receiver and result
    request,    \* a Request
    response,   \* the last error_response call: its arguments and result
    mdata,      \* a MutableData
    permissions_history,    \* the Permissions records of mdata
    data_index,             \* the number of data mutations of mdata
    owner_entry_index,      \* the number of owner changes of mdata
    mutations,  \* the number of successful permission and owner mutations
    mcall,      \* the last operation on mdata: arguments, receiver, result
    xname,      \* the last conversion of a PublicKey to a XorName
    xprev       \* the conversion before it

vars == <<keypair, pk, sig, msg, vcall, encoded, decoded,
          idata1, idata2, name1, name2, request, response,
          mdata, permissions_history, data_index, owner_entry_index,
          mutations, mcall, xname, xprev>>

identityVars == <<keypair, pk, sig, msg, vcall>>
serialiseVars == <<encoded, decoded>>
namingVars == <<idata1, idata2, name1, name2>>
requestVars == <<request, response>>
mdataVars == <<mdata, permissions_history, data_index, owner_entry_index,
               mutations, mcall>>
addressVars == <<xname, xprev>>

\* What the operations of one component leave alone.
notIdentity == <<serialiseVars, namingVars, requestVars, mdataVars, addressVars>>
notSerialise == <<pk, sig, msg, vcall, namingVars, requestVars, mdataVars,
                  addressVars>>
notNaming == <<identityVars, serialiseVars, requestVars, mdataVars, addressVars>>
notRequest == <<identityVars, serialiseVars, namingVars, mdataVars, addressVars>>
notMData == <<identityVars, serialiseVars, namingVars, requestVars, addressVars>>
notAddress == <<identityVars, serialiseVars, namingVars, requestVars, mdataVars>>

None == [none |-> TRUE]

(***************************************************************************)
(* Bounds.                                                                 *)
(***************************************************************************)
NumEdSecrets == 2
NumBlsSecrets == 2
MaxIndex == 1
NumKeySets == 1
MaxMsgLen == 1
ByteMax == 1
MaxData == 2
NumOps == 3
NumNames == 2
MaxTag == 1
MaxVersion == 2
MaxDataIndex == 1

\* Widths of the byte encodings, scaled down from 32 (XOR_NAME_LEN, and the
\* length of an Ed25519 key or a BLS secret) and 48 (PK_SIZE).
XOR_NAME_LEN == 2
PK_SIZE == 3

EdSecrets == 1..NumEdSecrets
BlsSecrets == 1..NumBlsSecrets
ShareIndexes == 0..MaxIndex
KeySets == 1..NumKeySets
Byte == 0..ByteMax

SeqsUpTo(S, n) == UNION {[1..k -> S] : k \in 0..n}

\* The messages signed and verified: the empty message among them.
Messages == SeqsUpTo({0, 255}, MaxMsgLen)

Variants == {"Ed25519", "Bls", "BlsShare"}

(***************************************************************************)
(* External primitives.                                                    *)
(***************************************************************************)
\* ed25519_dalek: the public key of a secret key.
ed25519_public(secret) == 2 * secret + 1

\* threshold_crypto: SecretKey::public_key.  SecretKeyShare and
\* PublicKeyShare are wrappers of SecretKey and PublicKey, so a share uses
\* the same derivation.
bls_public_key(sk) == sk + 1

bls_public_key_share(sk) == bls_public_key(sk)

\* A raw signature names the secret that made it and the message it is over.
ed25519_sign(secret, data) == [by |-> secret, on |-> data]

bls_sign(sk, data) == [by |-> sk, on |-> data]

\* ed25519_dalek::PublicKey::verify: Ok exactly for a signature of the
\* matching secret over that message.
ed25519_verify(pub_key, data, s) == pub_key = ed25519_public(s.by) /\ s.on = data

\* threshold_crypto::PublicKey::verify and PublicKeyShare::verify.
bls_verify(pub_key, s, data) == pub_key = bls_public_key(s.by) /\ s.on = data

EdPublics == {ed25519_public(s) : s \in EdSecrets}
BlsPublics == {bls_public_key(s) : s \in BlsSecrets}

(***************************************************************************)
(* public_key.rs: PublicKey and Signature.                                 *)
(***************************************************************************)
PublicKey ==
    [variant : {"Ed25519"}, key : EdPublics]
    \cup [variant : {"Bls", "BlsShare"}, key : BlsPublics]

\* A BlsShare signature holds the index of the share and the share
\* (keypair.rs, sign); verify_detached checks the share.
Signature ==
    [variant : {"Ed25519"}, sig : {ed25519_sign(s, m) : s \in EdSecrets, m \in Messages}]
    \cup [variant : {"Bls"}, sig : {bls_sign(s, m) : s \in BlsSecrets, m \in Messages}]
    \cup [variant : {"BlsShare"}, index : ShareIndexes,
          share : {bls_sign(s, m) : s \in BlsSecrets, m \in Messages}]

Ok == [ok |-> TRUE]
Err(e) == [ok |-> FALSE, err |-> e]

\* What the arm of the match computes for a pair of equal variants.
is_valid(self, signature, data) ==
    CASE self.variant = "Ed25519" -> ed25519_verify(self.key, data, signature.sig)
      [] self.variant = "Bls" -> bls_verify(self.key, signature.sig, data)
      [] self.variant = "BlsShare" -> bls_verify(self.key, signature.share, data)

verify_detached_untyped(self, signature, data) ==
    IF self.variant = "Ed25519" /\ signature.variant = "Ed25519"
    THEN (IF is_valid(self, signature, data) THEN Ok ELSE Err("InvalidSignature"))
    ELSE IF self.variant # "Ed25519" /\ signature.variant # "Ed25519"
    THEN (IF bls_verify(self.key,
                        IF signature.variant = "Bls" THEN signature.sig ELSE signature.share,
                        data)
          THEN Ok ELSE Err("InvalidSignature"))
    ELSE Err("SigningKeyTypeMismatch")

verify_detached_unchecked(self, signature, data) ==
    IF self.variant = signature.variant THEN Ok ELSE Err("SigningKeyTypeMismatch")

verify_detached(self, signature, data) ==
    IF self.variant = signature.variant
    THEN (IF is_valid(self, signature, data) THEN Ok ELSE Err("InvalidSignature"))
    ELSE Err("SigningKeyTypeMismatch")

(***************************************************************************)
(* keys/keypair.rs: Keypair.                                               *)
(***************************************************************************)
new_ed25519(rng) ==
    [variant |-> "Ed25519", secret |-> rng, public |-> ed25519_public(rng)]

new_bls(rng) ==
    [variant |-> "Bls", secret |-> rng, public |-> bls_public_key(rng)]

new_bls_share(index, secret_share, public_key_set) ==
    [variant |-> "BlsShare", index |-> index, secret |-> secret_share,
     public |-> bls_public_key_share(secret_share),
     public_key_set |-> public_key_set]

public_key_wrong_variant(self) ==
    CASE self.variant = "Ed25519" -> [variant |-> "Ed25519", key |-> self.public]
      [] self.variant = "Bls" -> [variant |-> "Bls", key |-> self.public]
      [] self.variant = "BlsShare" -> [variant |-> "Bls", key |-> self.public]

public_key(self) ==
    CASE self.variant = "Ed25519" -> [variant |-> "Ed25519", key |-> self.public]
      [] self.variant = "Bls" -> [variant |-> "Bls", key |-> self.public]
      [] self.variant = "BlsShare" -> [variant |-> "BlsShare", key |-> self.public]

sign(self, data) ==
    CASE self.variant = "Ed25519" ->
            [variant |-> "Ed25519", sig |-> ed25519_sign(self.secret, data)]
      [] self.variant = "Bls" ->
            [variant |-> "Bls", sig |-> bls_sign(self.secret, data)]
      [] self.variant = "BlsShare" ->
            [variant |-> "BlsShare", index |-> self.index,
             share |-> bls_sign(self.secret, data)]

Keypairs ==
    {new_ed25519(s) : s \in EdSecrets}
    \cup {new_bls(s) : s \in BlsSecrets}
    \cup {new_bls_share(i, s, ks) : i \in ShareIndexes, s \in BlsSecrets, ks \in KeySets}

(***************************************************************************)
(* Byte encodings (to_bytes / from_bytes of the key types): big endian,    *)
(* fixed width, base 256.                                                  *)
(***************************************************************************)
RECURSIVE ToBytes(_, _)
ToBytes(n, width) ==
    IF width = 0 THEN <<>>
    ELSE Append(ToBytes(n \div 256, width - 1), n % 256)

RECURSIVE FromBytes(_)
FromBytes(bytes) ==
    IF bytes = <<>> THEN 0
    ELSE 256 * FromBytes(SubSeq(bytes, 1, Len(bytes) - 1)) + bytes[Len(bytes)]

ed25519_secret_to_bytes(secret) == ToBytes(secret, XOR_NAME_LEN)
ed25519_public_to_bytes(public) == ToBytes(public, XOR_NAME_LEN)
bls_secret_to_bytes(sk) == ToBytes(sk, XOR_NAME_LEN)
bls_public_to_bytes(public) == ToBytes(public, PK_SIZE)

\* ed25519_dalek::Keypair::to_bytes: the secret followed by the public key.
ed25519_keypair_to_bytes(kp) ==
    ed25519_secret_to_bytes(kp.secret) \o ed25519_public_to_bytes(kp.public)

(***************************************************************************)
(* keys/keypair.rs: equality and the derived serialisation of Keypair.     *)
(***************************************************************************)
Keypair_eq_no_share(self, other) ==
    CASE self.variant = "Ed25519" /\ other.variant = "Ed25519" ->
            ed25519_keypair_to_bytes(self) = ed25519_keypair_to_bytes(other)
      [] self.variant = "Bls" /\ other.variant = "Bls" ->
            self.secret = other.secret /\ self.public = other.public
      [] OTHER -> FALSE

Keypair_eq(self, other) ==
    CASE self.variant = "Ed25519" /\ other.variant = "Ed25519" ->
            ed25519_keypair_to_bytes(self) = ed25519_keypair_to_bytes(other)
      [] self.variant = "Bls" /\ other.variant = "Bls" ->
            self.secret = other.secret /\ self.public = other.public
      [] self.variant = "BlsShare" /\ other.variant = "BlsShare" ->
            /\ self.index = other.index
            /\ self.secret = other.secret
            /\ self.public = other.public
            /\ self.public_key_set = other.public_key_set
      [] OTHER -> FALSE

\* The derived Serialize: the index of the variant, then the fields of the
\* variant in the order of their declaration.
serialise(kp) ==
    CASE kp.variant = "Ed25519" -> <<0>> \o ed25519_keypair_to_bytes(kp)
      [] kp.variant = "Bls" ->
            <<1>> \o bls_secret_to_bytes(kp.secret) \o bls_public_to_bytes(kp.public)
      [] kp.variant = "BlsShare" ->
            <<2, kp.index>> \o bls_secret_to_bytes(kp.secret)
                \o bls_public_to_bytes(kp.public) \o <<kp.public_key_set>>

\* The derived Deserialize.
deserialise(bytes) ==
    CASE bytes[1] = 0 ->
            [variant |-> "Ed25519",
             secret |-> FromBytes(SubSeq(bytes, 2, 1 + XOR_NAME_LEN)),
             public |-> FromBytes(SubSeq(bytes, 2 + XOR_NAME_LEN, 1 + 2 * XOR_NAME_LEN))]
      [] bytes[1] = 1 ->
            [variant |-> "Bls",
             secret |-> FromBytes(SubSeq(bytes, 2, 1 + XOR_NAME_LEN)),
             public |-> FromBytes(SubSeq(bytes, 2 + XOR_NAME_LEN, 1 + XOR_NAME_LEN + PK_SIZE))]
      [] bytes[1] = 2 ->
            [variant |-> "BlsShare",
             index |-> bytes[2],
             secret |-> FromBytes(SubSeq(bytes, 3, 2 + XOR_NAME_LEN)),
             public |-> FromBytes(SubSeq(bytes, 3 + XOR_NAME_LEN, 2 + XOR_NAME_LEN + PK_SIZE)),
             public_key_set |-> bytes[3 + XOR_NAME_LEN + PK_SIZE]]

(***************************************************************************)
(* immutable_data.rs: UnpubImmutableData.                                  *)
(***************************************************************************)
\* An injective numbering of the finite sequences of naturals.
Pair(a, b) == ((a + b) * (a + b + 1)) \div 2 + b

RECURSIVE Index(_)
Index(bytes) ==
    IF bytes = <<>> THEN 0 ELSE 1 + Pair(Head(bytes), Index(Tail(bytes)))

\* tiny_keccak::sha3_256, collision free: the digest is one 256-bit word.
sha3_256(bytes) == <<Index(bytes)>>

Contents == SeqsUpTo(Byte, MaxData)

UnpubImmutableData == [data : Contents, owners : BlsPublics]

name_single_stage(self) ==
    sha3_256(self.data \o bls_public_to_bytes(self.owners))

name_without_owner(self) == sha3_256(sha3_256(self.data))

name(self) ==
    LET bytes == sha3_256(self.data) \o bls_public_to_bytes(self.owners)
    IN  sha3_256(bytes)

(***************************************************************************)
(* request/mod.rs: Request and the dispatch of error_response.             *)
(***************************************************************************)
Families == {"IData", "MData", "AData", "SData", "Coins", "LoginPacket", "Client"}

\* The payload of a request is one of the operations of its family.
Ops == 1..NumOps

Request == [family : Families, req : Ops]

Errors == {"SigningKeyTypeMismatch", "InvalidSignature", "Unexpected", "AccessDenied"}

\* The error_response of each family (request/idata.rs, mdata.rs, ...): the
\* Response paired with the family and the operation, holding the error.
IDataRequest_error_response(req, error) ==
    [family |-> "IData", op |-> req, result |-> Err(error)]

MDataRequest_error_response(req, error) ==
    [family |-> "MData", op |-> req, result |-> Err(error)]

ADataRequest_error_response(req, error) ==
    [family |-> "AData", op |-> req, result |-> Err(error)]

SDataRequest_error_response(req, error) ==
    [family |-> "SData", op |-> req, result |-> Err(error)]

CoinsRequest_error_response(req, error) ==
    [family |-> "Coins", op |-> req, result |-> Err(error)]

LoginPacketRequest_error_response(req, error) ==
    [family |-> "LoginPacket", op |-> req, result |-> Err(error)]

ClientRequest_error_response(req, error) ==
    [family |-> "Client", op |-> req, result |-> Err(error)]

error_response_copied_arm(self, error) ==
    CASE self.family = "IData" -> IDataRequest_error_response(self.req, error)
      [] self.family = "MData" -> MDataRequest_error_response(self.req, error)
      [] self.family = "AData" -> ADataRequest_error_response(self.req, error)
      [] self.family = "SData" -> ADataRequest_error_response(self.req, error)
      [] self.family = "Coins" -> CoinsRequest_error_response(self.req, error)
      [] self.family = "LoginPacket" -> LoginPacketRequest_error_response(self.req, error)
      [] self.family = "Client" -> ClientRequest_error_response(self.req, error)

error_response(self, error) ==
    CASE self.family = "IData" -> IDataRequest_error_response(self.req, error)
      [] self.family = "MData" -> MDataRequest_error_response(self.req, error)
      [] self.family = "AData" -> ADataRequest_error_response(self.req, error)
      [] self.family = "SData" -> SDataRequest_error_response(self.req, error)
      [] self.family = "Coins" -> CoinsRequest_error_response(self.req, error)
      [] self.family = "LoginPacket" -> LoginPacketRequest_error_response(self.req, error)
      [] self.family = "Client" -> ClientRequest_error_response(self.req, error)

(***************************************************************************)
(* mutable_data.rs: MutableData.                                           *)
(***************************************************************************)
Permission == {"Read", "Insert", "Update", "Delete", "ManagePermissions"}

Anyone == [user |-> "Anyone"]
Key(k) == [user |-> "Key", key |-> k]
User == {Key(k) : k \in BlsPublics} \cup {Anyone}

\* The permission maps handed to the model: the empty map and the maps of
\* one user, a key or Anyone.
PermissionSets == {{"Insert"}, {"Read", "ManagePermissions"}}
NoPermissions == [u \in {} |-> {}]
PermissionMaps ==
    {NoPermissions}
    \cup {[u \in {user} |-> ps] : user \in {Key(bls_public_key(2)), Anyone},
                                  ps \in PermissionSets}

\* MutableDataKind: the entries of Unsequenced are Values (bytes and a
\* version), the entries of Sequenced are byte vectors.
EntryKeys == {"a"}
NoEntries == [k \in {} |-> <<>>]
Value(bytes, version) == [data |-> bytes, version |-> version]

\* The data handed to MutableData::new.
DataChoices ==
    {[kind |-> "Unsequenced", data |-> NoEntries],
     [kind |-> "Sequenced", data |-> NoEntries],
     [kind |-> "Unsequenced", data |-> [k \in {"a"} |-> Value(<<0>>, 0)]],
     [kind |-> "Sequenced", data |-> [k \in {"a"} |-> <<0>>]]}

XorNames == 1..NumNames
Tags == 0..MaxTag

MutableData_new_version_one(name_, tag, data, permissions, owners) ==
    [name |-> name_, tag |-> tag, data |-> data, permissions |-> permissions,
     version |-> 1, owners |-> owners]

MutableData_new(name_, tag, data, permissions, owners) ==
    [name |-> name_, tag |-> tag, data |-> data, permissions |-> permissions,
     version |-> 0, owners |-> owners]

MutableData_name(self) == self.name

MutableData_tag(self) == self.tag

MutableData_owners(self) == self.owners

MutableData_permissions(self) == self.permissions

\* The Permissions record of a permission change.
Permissions(permissions, data_index_, owner_entry_index_) ==
    [permissions |-> permissions, data_index |-> data_index_,
     owner_entry_index |-> owner_entry_index_]

\* The requester may change the permissions and the owner: the owner, or a
\* User::Key of the permissions that holds ManagePermissions.
may_manage_anyone(self, requester) ==
    \/ requester = self.owners
    \/ \E u \in DOMAIN self.permissions : "ManagePermissions" \in self.permissions[u]

may_manage(self, requester) ==
    \/ requester = self.owners
    \/ /\ Key(requester) \in DOMAIN self.permissions
       /\ "ManagePermissions" \in self.permissions[Key(requester)]

\* The requester may insert an entry: the owner, or a User::Key of the
\* permissions that holds Insert.
may_insert(self, requester) ==
    \/ requester = self.owners
    \/ /\ Key(requester) \in DOMAIN self.permissions
       /\ "Insert" \in self.permissions[Key(requester)]

\* The permission mutation: the result and the MutableData it leaves.
set_permissions_same_version(self, requester, permissions) ==
    IF may_manage(self, requester)
    THEN [result |-> Ok, mdata |-> [self EXCEPT !.permissions = permissions]]
    ELSE [result |-> Err("AccessDenied"), mdata |-> self]

set_permissions(self, requester, permissions) ==
    IF may_manage(self, requester)
    THEN [result |-> Ok,
          mdata |-> [self EXCEPT !.permissions = permissions, !.version = @ + 1]]
    ELSE [result |-> Err("AccessDenied"), mdata |-> self]

\* The owner mutation.
set_owner(self, requester, new_owner) ==
    IF may_manage(self, requester)
    THEN [result |-> Ok,
          mdata |-> [self EXCEPT !.owners = new_owner, !.version = @ + 1]]
    ELSE [result |-> Err("AccessDenied"), mdata |-> self]

\* The entry a kind stores for the bytes of an insertion.
entry_of(kind, bytes) ==
    IF kind = "Unsequenced" THEN Value(bytes, 0) ELSE bytes

\* The insertion of an entry: a data mutation.
insert(self, requester, key, bytes) ==
    IF may_insert(self, requester)
    THEN [result |-> Ok,
          mdata |-> [self EXCEPT !.data.data =
                        [k \in DOMAIN self.data.data \cup {key} |->
                            IF k = key THEN entry_of(self.data.kind, bytes)
                            ELSE self.data.data[k]]]]
    ELSE [result |-> Err("AccessDenied"), mdata |-> self]

(***************************************************************************)
(* The state after construction.                                           *)
(***************************************************************************)
Init ==
    /\ keypair = new_ed25519(1)
    /\ pk = public_key(new_ed25519(1))
    /\ sig = sign(new_ed25519(1), <<>>)
    /\ msg = <<>>
    /\ vcall = None
    /\ encoded = None
    /\ decoded = None
    /\ idata1 = [data |-> <<>>, owners |-> bls_public_key(1)]
    /\ idata2 = [data |-> <<>>, owners |-> bls_public_key(1)]
    /\ name1 = None
    /\ name2 = None
    /\ request = [family |-> "IData", req |-> 1]
    /\ response = None
    /\ mdata = MutableData_new(1, 0, [kind |-> "Sequenced", data |-> NoEntries],
                               NoPermissions, bls_public_key(1))
    /\ permissions_history = <<>>
    /\ data_index = 0
    /\ owner_entry_index = 0
    /\ mutations = 0
    /\ mcall = None
    /\ xname = None
    /\ xprev = None

(***************************************************************************)
(* Keys and signatures.                                                    *)
(***************************************************************************)
Keypair_new_ed25519(rng) ==
    /\ keypair' = new_ed25519(rng)
    /\ UNCHANGED <<pk, sig, msg, vcall>>
    /\ UNCHANGED notIdentity

Keypair_new_bls(rng) ==
    /\ keypair' = new_bls(rng)
    /\ UNCHANGED <<pk, sig, msg, vcall>>
    /\ UNCHANGED notIdentity

Keypair_new_bls_share(index, secret_share, public_key_set) ==
    /\ keypair' = new_bls_share(index, secret_share, public_key_set)
    /\ UNCHANGED <<pk, sig, msg, vcall>>
    /\ UNCHANGED notIdentity

\* keypair.public_key() becomes the key to verify with.
Keypair_public_key ==
    /\ pk' = public_key(keypair)
    /\ vcall' = None
    /\ UNCHANGED <<keypair, sig, msg>>
    /\ UNCHANGED notIdentity

\* keypair.sign(data) becomes the signature to verify, over that message.
Keypair_sign(data) ==
    /\ sig' = sign(keypair, data)
    /\ msg' = data
    /\ vcall' = None
    /\ UNCHANGED <<keypair, pk>>
    /\ UNCHANGED notIdentity

\* A public key, a signature or a message of someone else arrives.
ReceivePublicKey(k) ==
    /\ pk' = k
    /\ vcall' = None
    /\ UNCHANGED <<keypair, sig, msg>>
    /\ UNCHANGED notIdentity

ReceiveSignature(s) ==
    /\ sig' = s
    /\ vcall' = None
    /\ UNCHANGED <<keypair, pk, msg>>
    /\ UNCHANGED notIdentity

ReceiveMessage(m) ==
    /\ msg' = m
    /\ vcall' = None
    /\ UNCHANGED <<keypair, pk, sig>>
    /\ UNCHANGED notIdentity

PublicKey_verify_detached ==
    /\ vcall' = [self |-> pk, signature |-> sig, data |-> msg,
                 result |-> verify_detached(pk, sig, msg)]
    /\ UNCHANGED <<keypair, pk, sig, msg>>
    /\ UNCHANGED notIdentity

NextIdentity ==
    \/ \E rng \in EdSecrets : Keypair_new_ed25519(rng)
    \/ \E rng \in BlsSecrets : Keypair_new_bls(rng)
    \/ \E i \in ShareIndexes, s \in BlsSecrets :
           Keypair_new_bls_share(i, s, 1)
    \/ Keypair_public_key
    \/ \E m \in Messages : Keypair_sign(m)
    \/ \E k \in PublicKey : ReceivePublicKey(k)
    \/ \E s \in Signature : ReceiveSignature(s)
    \/ \E m \in Messages : ReceiveMessage(m)
    \/ PublicKey_verify_detached

SpecIdentity == Init /\ [][NextIdentity]_vars

(***************************************************************************)
(* Serialisation of keypairs.                                              *)
(***************************************************************************)
NewKeypair(kp) ==
    /\ keypair' = kp
    /\ UNCHANGED <<encoded, decoded>>
    /\ UNCHANGED notSerialise

Serialise ==
    /\ encoded' = serialise(keypair)
    /\ decoded' = None
    /\ UNCHANGED keypair
    /\ UNCHANGED notSerialise

Deserialise ==
    /\ encoded # None
    /\ decoded' = deserialise(encoded)
    /\ UNCHANGED <<keypair, encoded>>
    /\ UNCHANGED notSerialise

NextSerialise ==
    \/ \E kp \in Keypairs : NewKeypair(kp)
    \/ Serialise
    \/ Deserialise

SpecSerialise == Init /\ [][NextSerialise]_vars

(***************************************************************************)
(* Unpublished immutable data.                                             *)
(***************************************************************************)
NewIData1(data, owners) ==
    /\ idata1' = [data |-> data, owners |-> owners]
    /\ name1' = None
    /\ UNCHANGED <<idata2, name2>>
    /\ UNCHANGED notNaming

NewIData2(data, owners) ==
    /\ idata2' = [data |-> data, owners |-> owners]
    /\ name2' = None
    /\ UNCHANGED <<idata1, name1>>
    /\ UNCHANGED notNaming

UnpubImmutableData_name1 ==
    /\ name1' = [self |-> idata1, result |-> name(idata1)]
    /\ UNCHANGED <<idata1, idata2, name2>>
    /\ UNCHANGED notNaming

UnpubImmutableData_name2 ==
    /\ name2' = [self |-> idata2, result |-> name(idata2)]
    /\ UNCHANGED <<idata1, idata2, name1>>
    /\ UNCHANGED notNaming

NextNaming ==
    \/ \E d \in Contents, o \in BlsPublics : NewIData1(d, o)
    \/ \E d \in Contents, o \in BlsPublics : NewIData2(d, o)
    \/ UnpubImmutableData_name1
    \/ UnpubImmutableData_name2

SpecNaming == Init /\ [][NextNaming]_vars

(***************************************************************************)
(* Requests.                                                               *)
(***************************************************************************)
NewRequest(r) ==
    /\ request' = r
    /\ UNCHANGED response
    /\ UNCHANGED notRequest

Request_error_response(error) ==
    /\ response' = [self |-> request, error |-> error,
                    result |-> error_response(request, error)]
    /\ UNCHANGED request
    /\ UNCHANGED notRequest

NextRequest ==
    \/ \E r \in Request : NewRequest(r)
    \/ \E e \in Errors : Request_error_response(e)

SpecRequest == Init /\ [][NextRequest]_vars

(***************************************************************************)
(* Mutable data.                                                           *)
(***************************************************************************)
New(name_, tag, data, permissions, owners) ==
    /\ mdata' = MutableData_new(name_, tag, data, permissions, owners)
    /\ permissions_history' = <<>>
    /\ data_index' = 0
    /\ owner_entry_index' = 0
    /\ mutations' = 0
    /\ mcall' = [op |-> "new", name |-> name_, tag |-> tag, data |-> data,
                 permissions |-> permissions, owners |-> owners]
    /\ UNCHANGED notMData

Accessor(op, result) ==
    /\ mcall' = [op |-> op, self |-> mdata, result |-> result]
    /\ UNCHANGED <<mdata, permissions_history, data_index, owner_entry_index,
                   mutations>>
    /\ UNCHANGED notMData

Name == Accessor("name", MutableData_name(mdata))

Tag == Accessor("tag", MutableData_tag(mdata))

Owners == Accessor("owners", MutableData_owners(mdata))

GetPermissions == Accessor("permissions", MutableData_permissions(mdata))

SetPermissions(requester, permissions) ==
    LET out == set_permissions(mdata, requester, permissions)
    IN  /\ mdata.version < MaxVersion    \* the model stops counting here
        /\ mdata' = out.mdata
        /\ permissions_history' =
              IF out.result = Ok
              THEN Append(permissions_history,
                          Permissions(permissions, data_index, owner_entry_index))
              ELSE permissions_history
        /\ mutations' = IF out.result = Ok THEN mutations + 1 ELSE mutations
        /\ mcall' = [op |-> "set_permissions", self |-> mdata,
                     requester |-> requester, permissions |-> permissions,
                     data_index |-> data_index,
                     owner_entry_index |-> owner_entry_index,
                     history |-> permissions_history,
                     result |-> out.result]
        /\ UNCHANGED <<data_index, owner_entry_index>>
        /\ UNCHANGED notMData

SetOwner(requester, new_owner) ==
    LET out == set_owner(mdata, requester, new_owner)
    IN  /\ mdata.version < MaxVersion    \* the model stops counting here
        /\ mdata' = out.mdata
        /\ permissions_history' =
              IF out.result = Ok
              THEN Append(permissions_history,
                          Permissions(mdata.permissions, data_index, owner_entry_index))
              ELSE permissions_history
        /\ owner_entry_index' =
              IF out.result = Ok THEN owner_entry_index + 1 ELSE owner_entry_index
        /\ mutations' = IF out.result = Ok THEN mutations + 1 ELSE mutations
        /\ mcall' = [op |-> "set_owner", self |-> mdata,
                     requester |-> requester, owners |-> new_owner,
                     data_index |-> data_index,
                     owner_entry_index |-> owner_entry_index,
                     history |-> permissions_history,
                     result |-> out.result]
        /\ UNCHANGED data_index
        /\ UNCHANGED notMData

Insert(requester, key, bytes) ==
    LET out == insert(mdata, requester, key, bytes)
    IN  /\ data_index < MaxDataIndex     \* the model stops counting here
        /\ mdata' = out.mdata
        /\ data_index' = IF out.result = Ok THEN data_index + 1 ELSE data_index
        /\ mcall' = [op |-> "insert", self |-> mdata, requester |-> requester,
                     key |-> key, bytes |-> bytes, result |-> out.result]
        /\ UNCHANGED <<permissions_history, owner_entry_index, mutations>>
        /\ UNCHANGED notMData

\* The data field is public: a caller assigns it.
SetData(data) ==
    /\ mdata' = [mdata EXCEPT !.data = data]
    /\ mcall' = [op |-> "data", self |-> mdata, data |-> data]
    /\ UNCHANGED <<permissions_history, data_index, owner_entry_index, mutations>>
    /\ UNCHANGED notMData

\* The operations mutable_data.rs offers.
NextMData ==
    \/ \E n \in XorNames, t \in Tags, d \in DataChoices,
          p \in PermissionMaps, o \in BlsPublics : New(n, t, d, p, o)
    \/ Name
    \/ Tag
    \/ Owners
    \/ GetPermissions
    \/ \E d \in DataChoices : SetData(d)

SpecMData == Init /\ [][NextMData]_vars

\* The transitions of a container of one name and tag.
NextMutation ==
    \/ \E d \in {c \in DataChoices : c.data = NoEntries},
          p \in PermissionMaps, o \in BlsPublics : New(1, 0, d, p, o)
    \/ \E r \in BlsPublics, p \in PermissionMaps : SetPermissions(r, p)
    \/ \E r \in BlsPublics, o \in BlsPublics : SetOwner(r, o)
    \/ \E r \in BlsPublics, k \in EntryKeys : Insert(r, k, <<1>>)

SpecMutation == Init /\ [][NextMutation]_vars

(***************************************************************************)
(* public_key.rs: the XorName of a PublicKey.                              *)
(***************************************************************************)
XorName_from_last_bytes(public_key_) ==
    IF public_key_.variant = "Ed25519"
    THEN ed25519_public_to_bytes(public_key_.key)
    ELSE LET bytes == bls_public_to_bytes(public_key_.key)
         IN  SubSeq(bytes, Len(bytes) - XOR_NAME_LEN + 1, Len(bytes))

XorName_from(public_key_) ==
    IF public_key_.variant = "Ed25519"
    THEN ed25519_public_to_bytes(public_key_.key)
    ELSE LET bytes == bls_public_to_bytes(public_key_.key)
         IN  SubSeq(bytes, 1, XOR_NAME_LEN)

\* XorName::from(pk).
From ==
    /\ xname' = [public_key |-> pk, result |-> XorName_from(pk)]
    /\ xprev' = xname
    /\ UNCHANGED notAddress

NextAddress ==
    \/ \E k \in PublicKey : ReceivePublicKey(k)
    \/ From

SpecAddress == Init /\ [][NextAddress]_vars

(***************************************************************************)
(* Properties.                                                             *)
(***************************************************************************)
SigningKeyTypeMismatch == Err("SigningKeyTypeMismatch")
InvalidSignature == Err("InvalidSignature")
AccessDenied == Err("AccessDenied")

\* The raw signature a Signature wraps.
RawSignature(s) == IF s.variant = "BlsShare" THEN s.share ELSE s.sig

\* The answer of the algorithm of the key for a signature and a message.
Accepts(k, s, m) ==
    IF k.variant = "Ed25519"
    THEN ed25519_verify(k.key, m, RawSignature(s))
    ELSE bls_verify(k.key, RawSignature(s), m)

\* C1: verify_detached returns SigningKeyTypeMismatch exactly when the
\* variant of the public key differs from the variant of the signature,
\* whatever the message and whatever the cryptographic check would answer.
C1_TypeMismatch ==
    vcall # None =>
        ((vcall.self.variant # vcall.signature.variant)
            <=> (vcall.result = SigningKeyTypeMismatch))

\* C1 happens: a BlsShare signature that the BLS check accepts under the
\* key, verified with a Bls key, is a type mismatch.
C1_Witness ==
    /\ vcall # None
    /\ vcall.self.variant = "Bls"
    /\ vcall.signature.variant = "BlsShare"
    /\ bls_verify(vcall.self.key, vcall.signature.share, vcall.data)
    /\ vcall.result = SigningKeyTypeMismatch

\* C2: with equal variants verify_detached returns Ok exactly when the check
\* of the algorithm accepts and InvalidSignature exactly when it rejects;
\* there is no fourth outcome, and the key, the signature and the message
\* are after the call what they were before it.
C2_VerifyOutcome ==
    vcall # None =>
        /\ vcall.result \in {Ok, InvalidSignature, SigningKeyTypeMismatch}
        /\ vcall.self.variant = vcall.signature.variant =>
              /\ (vcall.result = Ok)
                    <=> Accepts(vcall.self, vcall.signature, vcall.data)
              /\ (vcall.result = InvalidSignature)
                    <=> ~Accepts(vcall.self, vcall.signature, vcall.data)
        /\ vcall.self = pk
        /\ vcall.signature = sig
        /\ vcall.data = msg

\* C2 happens: a signature of the secret of the key, over another message,
\* is rejected.
C2_Witness ==
    /\ vcall # None
    /\ vcall.self.variant = vcall.signature.variant
    /\ vcall.self.key = (IF vcall.self.variant = "Ed25519"
                         THEN ed25519_public(RawSignature(vcall.signature).by)
                         ELSE bls_public_key(RawSignature(vcall.signature).by))
    /\ RawSignature(vcall.signature).on # vcall.data
    /\ vcall.result = InvalidSignature

\* C3: the public key and the signatures of a keypair have the variant of
\* the keypair, and verifying a signature of the keypair over a message with
\* the public key of the keypair and that message returns Ok.
C3_SignVerify ==
    /\ public_key(keypair).variant = keypair.variant
    /\ \A m \in Messages : sign(keypair, m).variant = keypair.variant
    /\ (/\ vcall # None
        /\ vcall.self = public_key(keypair)
        /\ vcall.signature = sign(keypair, vcall.data))
            => vcall.result = Ok

\* C3 happens: a BlsShare keypair signed the empty message and the
\* signature was verified with its public key.
C3_Witness ==
    /\ keypair.variant = "BlsShare"
    /\ vcall # None
    /\ vcall.data = <<>>
    /\ vcall.self = public_key(keypair)
    /\ vcall.signature = sign(keypair, <<>>)
    /\ vcall.result = Ok

\* The two-stage hash of the specification.
TwoStageHash(content, owner) ==
    sha3_256(sha3_256(content) \o bls_public_to_bytes(owner))

\* C4: name() is the hash of the hash of the data followed by the bytes of
\* the owner; two values of equal data and owner have the same name; the
\* value name() was called on is unchanged.
C4_NameIsTwoStageHash ==
    /\ name1 # None =>
          /\ name1.result = TwoStageHash(name1.self.data, name1.self.owners)
          /\ name1.self = idata1
    /\ name2 # None =>
          /\ name2.result = TwoStageHash(name2.self.data, name2.self.owners)
          /\ name2.self = idata2
    /\ (name1 # None /\ name2 # None /\ idata1 = idata2)
          => name1.result = name2.result

\* C4 happens: two equal values of non-empty data were both named.
C4_Witness ==
    /\ name1 # None
    /\ name2 # None
    /\ idata1 = idata2
    /\ idata1.data # <<>>
    /\ name1.result = name2.result

\* C5: two values that differ in their data or in their owner have different
\* names.
C5_NamesDiffer ==
    (name1 # None /\ name2 # None /\ idata1 # idata2)
        => name1.result # name2.result

\* C5 happens: the same data under two owners were both named.
C5_Witness ==
    /\ name1 # None
    /\ name2 # None
    /\ idata1.data = idata2.data
    /\ idata1.owners # idata2.owners
    /\ name1.result # name2.result

\* C6: the keypair deserialised from the serialisation of a keypair equals
\* it; a BlsShare comes back with its index, secret share, public share and
\* public key set; it equals no keypair of another variant.
C6_RoundTrip ==
    (decoded # None /\ encoded = serialise(keypair)) =>
        /\ Keypair_eq(decoded, keypair)
        /\ keypair.variant = "BlsShare" =>
              /\ decoded.index = keypair.index
              /\ decoded.secret = keypair.secret
              /\ decoded.public = keypair.public
              /\ decoded.public_key_set = keypair.public_key_set
        /\ \A k \in Keypairs :
              k.variant # keypair.variant => ~Keypair_eq(decoded, k)

\* C6 happens: a BlsShare keypair of a non-zero index went through the
\* round trip.
C6_Witness ==
    /\ decoded # None
    /\ encoded = serialise(keypair)
    /\ keypair.variant = "BlsShare"
    /\ keypair.index > 0
    /\ decoded.index = keypair.index

\* The error responses of the seven families for a payload and an error.
FamilyResponses(req, error) ==
    {IDataRequest_error_response(req, error),
     MDataRequest_error_response(req, error),
     ADataRequest_error_response(req, error),
     SDataRequest_error_response(req, error),
     CoinsRequest_error_response(req, error),
     LoginPacketRequest_error_response(req, error),
     ClientRequest_error_response(req, error)}

\* C7: the error response of a request is the error response of its own
\* family for its payload and the error, and holds that error.
C7_ErrorResponseOfFamily ==
    response # None =>
        /\ response.result \in FamilyResponses(response.self.req, response.error)
        /\ response.result.family = response.self.family
        /\ response.result.result = Err(response.error)

\* C7 happens: an SData request was answered with AccessDenied.
C7_Witness ==
    /\ response # None
    /\ response.self.family = "SData"
    /\ response.error = "AccessDenied"
    /\ response.result.family = "SData"

\* The requester is the owner of the container, or a key that the
\* permissions of the container give ManagePermissions.
OwnerOrManager(self, requester) ==
    \/ requester = self.owners
    \/ \E u \in DOMAIN self.permissions :
          /\ u = Key(requester)
          /\ "ManagePermissions" \in self.permissions[u]

\* C8: a permission mutation succeeds only for the owner or a key holding
\* ManagePermissions; it installs the permissions, raises the version by
\* one and appends a record of the data_index and owner_entry_index of
\* before the mutation; the version is the number of successful permission
\* and owner mutations.
C8_PermissionMutation ==
    /\ mdata.version = mutations
    /\ (mcall # None /\ mcall.op = "set_permissions" /\ mcall.result = Ok) =>
          /\ OwnerOrManager(mcall.self, mcall.requester)
          /\ mdata.permissions = mcall.permissions
          /\ mdata.version = mcall.self.version + 1
          /\ permissions_history =
                Append(mcall.history,
                       Permissions(mcall.permissions, mcall.data_index,
                                   mcall.owner_entry_index))

\* C8 happens: a key holding ManagePermissions, not the owner, changed the
\* permissions after a data mutation and an earlier mutation.
C8_Witness ==
    /\ mcall # None
    /\ mcall.op = "set_permissions"
    /\ mcall.result = Ok
    /\ mcall.requester # mcall.self.owners
    /\ mcall.data_index = 1
    /\ mcall.self.version = 1
    /\ mdata.version = 2
    /\ Len(permissions_history) = 2

\* C9: a permission or owner mutation requested by a key that is neither the
\* owner nor a key holding ManagePermissions fails with AccessDenied and
\* leaves the container (version, permissions, owners, data) as it was.
C9_AccessDenied ==
    (/\ mcall # None
     /\ mcall.op \in {"set_permissions", "set_owner"}
     /\ ~OwnerOrManager(mcall.self, mcall.requester)) =>
        /\ mcall.result = AccessDenied
        /\ mdata = mcall.self
        /\ permissions_history = mcall.history

\* C9 happens: a key that is not the owner was denied although Anyone holds
\* ManagePermissions.
C9_Witness ==
    /\ mcall # None
    /\ mcall.op = "set_permissions"
    /\ mcall.requester # mcall.self.owners
    /\ Anyone \in DOMAIN mcall.self.permissions
    /\ "ManagePermissions" \in mcall.self.permissions[Anyone]
    /\ mcall.result = AccessDenied
    /\ mdata.version = mcall.self.version

\* C10: new yields version 0 and the name, tag, data, permissions and owner
\* it was given; the accessors return the fields and change nothing; no
\* operation lowers the version.
C10_NewAndAccessors ==
    mcall # None =>
        /\ mcall.op = "new" =>
              /\ mdata.version = 0
              /\ MutableData_name(mdata) = mcall.name
              /\ MutableData_tag(mdata) = mcall.tag
              /\ mdata.data = mcall.data
              /\ MutableData_permissions(mdata) = mcall.permissions
              /\ MutableData_owners(mdata) = mcall.owners
        /\ mcall.op \in {"name", "tag", "owners", "permissions"} =>
              /\ mdata = mcall.self
              /\ mcall.result =
                    (CASE mcall.op = "name" -> mdata.name
                       [] mcall.op = "tag" -> mdata.tag
                       [] mcall.op = "owners" -> mdata.owners
                       [] mcall.op = "permissions" -> mdata.permissions)
        /\ mcall.op # "new" => mdata.version >= mcall.self.version
        /\ mdata.version >= 0

\* C10 happens: permissions() was called on a container built with a name,
\* a tag, data and permissions that are not the default ones.
C10_Witness ==
    /\ mcall # None
    /\ mcall.op = "permissions"
    /\ mcall.result # NoPermissions
    /\ mdata.name = 2
    /\ mdata.tag = 1
    /\ mdata.data.data # NoEntries
    /\ mdata.version = 0

\* An entry is a Value: bytes and a version of its own.
CarriesVersion(entry) == DOMAIN entry = {"data", "version"}

\* C11: the entries of a sequenced MutableData are {bytes, version} pairs,
\* the entries of an unsequenced one are plain byte values without a version
\* of their own, and a change of the data leaves the version of the
\* container alone.
C11_EntryVersions ==
    /\ \A k \in DOMAIN mdata.data.data :
          (mdata.data.kind = "Sequenced") <=> CarriesVersion(mdata.data.data[k])
    /\ (mcall # None /\ mcall.op = "data") => mdata.version = mcall.self.version

\* The first XOR_NAME_LEN bytes of the encoding of the key of a PublicKey.
LeadingBytes(k) ==
    LET bytes == IF k.variant = "Ed25519"
                 THEN ed25519_public_to_bytes(k.key)
                 ELSE bls_public_to_bytes(k.key)
    IN  [i \in 1..XOR_NAME_LEN |-> bytes[i]]

\* A conversion is of a key to the name the claim gives it.
NameOfKey(c) ==
    /\ Len(c.result) = XOR_NAME_LEN
    /\ c.public_key.variant = "Ed25519" =>
          c.result = ed25519_public_to_bytes(c.public_key.key)
    /\ c.public_key.variant \in {"Bls", "BlsShare"} =>
          /\ c.result = LeadingBytes(c.public_key)
          /\ Len(bls_public_to_bytes(c.public_key.key)) = PK_SIZE

\* C12: the XorName of an Ed25519 key is the encoding of the key, the
\* XorName of a Bls or BlsShare key is the first XOR_NAME_LEN bytes of its
\* encoding; two Bls or BlsShare keys whose encodings agree on those bytes
\* have the same name, and so have equal keys.
C12_XorNameOfKey ==
    /\ xname # None => NameOfKey(xname)
    /\ xprev # None => NameOfKey(xprev)
    /\ (xname # None /\ xprev # None) =>
          /\ xname.public_key = xprev.public_key => xname.result = xprev.result
          /\ (/\ xname.public_key.variant # "Ed25519"
              /\ xprev.public_key.variant # "Ed25519"
              /\ LeadingBytes(xname.public_key) = LeadingBytes(xprev.public_key))
                => xname.result = xprev.result

\* C12 happens: two different Bls keys whose encodings differ only after
\* the first XOR_NAME_LEN bytes were converted, to the same name.
C12_Witness ==
    /\ xname # None
    /\ xprev # None
    /\ xname.public_key.variant = "Bls"
    /\ xprev.public_key.variant = "Bls"
    /\ xname.public_key.key # xprev.public_key.key
    /\ bls_public_to_bytes(xname.public_key.key)
          # bls_public_to_bytes(xprev.public_key.key)
    /\ xname.result = xprev.result

====
